---- MODULE Spec2Model ----
(***************************************************************************)
(* Model of the orbit-js bridge (src/src/index.ts): the OrbitCore class    *)
(* that drives a WebAssembly core through orbit_alloc / orbit_dealloc and  *)
(* the eight entry points, following the protocol of OrbitCore.invoke.     *)
(*                                                                         *)
(* The host code is modelled statement by statement; the wasm core is the  *)
(* environment: every call into it (orbit_alloc, orbit_dealloc, an entry   *)
(* point) chooses its outcome with \E.                                     *)
(*                                                                         *)
(* Text is a sequence of code points, bytes are numbers 0..255.  The       *)
(* interchange texts the model uses are "1", "11", "null", "{}", "x" and   *)
(* "{E}"; the last abbreviates the text of a complete structured error     *)
(* {"kind":"E","message":"m","span":{"start":0,"end":1}}.                  *)
(***************************************************************************)
EXTENDS Integers, Sequences, FiniteSets, TLC

(***************************************************************************)
(* Bounds of the model.                                                    *)
(***************************************************************************)
\* number of public calls made on the instance
MaxCalls == 2
\* number of times the core misbehaves: orbit_alloc gives the null pointer or
\* a block that reaches past the end of the memory, an entry point gives back
\* a descriptor of bytes it did not allocate inside the memory
MaxFaults == 1
\* number of times the core grows (replaces) its linear memory
MaxGrow == 1
\* byte length of the linear memory at instantiation
MemLen0 == 32
\* bytes added by one growth of the memory
GrowBytes == 8

(***************************************************************************)
(* Program constants.                                                      *)
(***************************************************************************)
STATUS_OK == 0
SLICE_STRUCT_SIZE == 12

\* cachedView / cachedU8 before the first use (null)
NoView == 0 - 1

(***************************************************************************)
(* Sequences and linear memory.  Address a of the memory is mem[a + 1].    *)
(***************************************************************************)
Min(a, b) == IF a < b THEN a ELSE b
Max(a, b) == IF a > b THEN a ELSE b

\* The addresses ptr .. ptr+len-1 that exist in a memory of n bytes.
Window(n, ptr, len) == {a \in ptr .. (ptr + len - 1) : a >= 0 /\ a < n}

\* The core's own store of bytes at ptr: a store outside the memory does not
\* happen here (the entry point's outcomes decide whether it traps).
Store(m, ptr, bytes) ==
  [i \in 1 .. Len(m) |->
     IF (i - 1) >= ptr /\ (i - 1) < ptr + Len(bytes)
     THEN bytes[i - ptr] ELSE m[i]]

\* Little-endian 32-bit words as the core stores them.
Le32(v) == << v % 256, (v \div 256) % 256, (v \div 65536) % 256, (v \div 16777216) % 256 >>

SliceBytes(s) == Le32(s.ptr) \o Le32(s.len) \o Le32(s.cap)

ZeroSlice == [ptr |-> 0, len |-> 0, cap |-> 0]

(***************************************************************************)
(* TextEncoder / TextDecoder (UTF-8) on code points below 0x800.           *)
(***************************************************************************)
RECURSIVE Utf8Encode(_)
Utf8Encode(s) ==
  IF s = << >> THEN << >>
  ELSE LET c == Head(s) IN
       (IF c < 128 THEN << c >>
        ELSE << 192 + (c \div 64), 128 + (c % 64) >>) \o Utf8Encode(Tail(s))

\* U+FFFD, which a non-fatal TextDecoder puts in place of a malformed sequence
Replacement == 65533

RECURSIVE Utf8Decode(_)
Utf8Decode(b) ==
  IF b = << >> THEN << >>
  ELSE LET x == Head(b) IN
       IF x < 128 THEN << x >> \o Utf8Decode(Tail(b))
       ELSE IF x >= 194 /\ x <= 223 /\ Len(b) >= 2 /\ b[2] >= 128 /\ b[2] <= 191
            THEN << (x - 192) * 64 + (b[2] - 128) >> \o Utf8Decode(Tail(Tail(b)))
            ELSE << Replacement >> \o Utf8Decode(Tail(b))

(***************************************************************************)
(* JSON values, JSON.parse and JSON.stringify on the model's texts.        *)
(***************************************************************************)
\* shaped: the value is an object with the fields kind, message and span
JsonOf(t, n) ==
  [t |-> t, num |-> n, shaped |-> FALSE, kind |-> "", message |-> "", start |-> 0, end |-> 0]
JUndefined == JsonOf("undefined", 0)
JNull == JsonOf("null", 0)
JNum(n) == JsonOf("number", n)
JEmptyObject == JsonOf("object", 0)
\* the object {kind, message, span: {start, end}}
JError(k, m, s, e) ==
  [t |-> "object", num |-> 0, shaped |-> TRUE, kind |-> k, message |-> m, start |-> s, end |-> e]

TextOne == << 49 >>
TextEleven == << 49, 49 >>
TextNull == << 110, 117, 108, 108 >>
TextEmptyObject == << 123, 125 >>
TextError == << 123, 69, 125 >>
TextErrorAtEnd == << 123, 70, 125 >>
TextOpen == << 123 >>
TextJunk == << 120 >>
TextAccent == << 233 >>

\* JSON.parse: [ok |-> FALSE] is the SyntaxError it throws.
JsonParse(text) ==
  IF text = TextOne THEN [ok |-> TRUE, v |-> JNum(1)]
  ELSE IF text = TextEleven THEN [ok |-> TRUE, v |-> JNum(11)]
  ELSE IF text = TextNull THEN [ok |-> TRUE, v |-> JNull]
  ELSE IF text = TextEmptyObject THEN [ok |-> TRUE, v |-> JEmptyObject]
  ELSE IF text = TextError THEN [ok |-> TRUE, v |-> JError("E", "m", 0, 1)]
  ELSE IF text = TextErrorAtEnd THEN [ok |-> TRUE, v |-> JError("F", "m", 1, 1)]
  ELSE [ok |-> FALSE, v |-> JUndefined]

\* JSON.stringify on the values the callers pass
JsonStringify(v) ==
  IF v = JNum(1) THEN TextOne
  ELSE IF v = JNum(11) THEN TextEleven
  ELSE IF v = JEmptyObject THEN TextEmptyObject
  ELSE TextNull

(***************************************************************************)
(* Host values: Uint8Array objects and what a public method hands back.    *)
(***************************************************************************)
\* A Uint8Array that owns its bytes.
Owned(bytes) == [owned |-> TRUE, bytes |-> bytes, gen |-> 0, ptr |-> 0, len |-> 0]
\* A Uint8Array that is a view of the region gen of the core's memory.
ViewOf(gen, ptr, len) == [owned |-> FALSE, bytes |-> << >>, gen |-> gen, ptr |-> ptr, len |-> len]

NoBuf == Owned(<< >>)

HostValue(t, text, json, buf) == [t |-> t, text |-> text, json |-> json, buf |-> buf]
NoValue == HostValue("none", << >>, JUndefined, NoBuf)
StringValue(s) == HostValue("string", s, JUndefined, NoBuf)
JsonValue(j) == HostValue("json", << >>, j, NoBuf)
BytesValue(b) == HostValue("bytes", << >>, JUndefined, b)

\* What the caller of a public method observes.
NoOutcome == [kind |-> "none", err |-> "", msg |-> << >>, value |-> NoValue, detail |-> JUndefined]
Returned(v) == [kind |-> "return", err |-> "", msg |-> << >>, value |-> v, detail |-> JUndefined]
Thrown(e, m) == [kind |-> "throw", err |-> e, msg |-> << m >>, value |-> NoValue, detail |-> JUndefined]

\* detail.kind / detail.message in a template literal: a missing property
\* reads as undefined
Interpolated(detail, field) == IF detail.shaped THEN field ELSE "undefined"

\* an OrbitError whose message is detail.message alone
OrbitError_MessageOnly(detail) ==
  IF detail.t = "null"
  THEN Thrown("TypeError", "cannot read properties of null")
  ELSE [kind |-> "throw", err |-> "OrbitError",
        msg |-> << Interpolated(detail, detail.message) >>,
        value |-> NoValue, detail |-> detail]

\* class OrbitError: the detail is kept as given and the message is built
\* from detail.kind and detail.message; reading a property of null is a
\* TypeError.
OrbitError(detail) ==
  IF detail.t = "null"
  THEN Thrown("TypeError", "cannot read properties of null")
  ELSE [kind |-> "throw", err |-> "OrbitError",
        msg |-> << Interpolated(detail, detail.kind), ": ", Interpolated(detail, detail.message) >>,
        value |-> NoValue, detail |-> detail]

(***************************************************************************)
(* State.                                                                  *)
(***************************************************************************)
VARIABLES
  mem,            \* exports.memory: the bytes of the current linear memory
  memGen,         \* identity of exports.memory.buffer (replaced by growth)
  live,           \* the core's allocator: buffers allocated and not released
  badFree,        \* orbit_dealloc calls for a pointer that was not allocated
  faultsLeft,     \* misbehaviours the core may still show
  growLeft,       \* growths of the memory the core may still do
  cachedView,     \* OrbitCore.cachedView: region it views, or NoView
  cachedU8,       \* OrbitCore.cachedU8: region it views, or NoView
  pc,             \* position of the call in progress
  op,             \* the public method in progress
  input,          \* invoke's parameter input
  inputSlice,     \* invoke's local inputSlice
  resultSlicePtr, \* invoke's local resultSlicePtr
  status,         \* invoke's local status
  resultSlice,    \* invoke's local resultSlice
  payload,        \* invoke's local payload
  pending,        \* exception travelling through the finally block
  outcome,        \* what the public method returned or threw
  trace,          \* the calls into the core and the memory accesses of this call
  coreRet,        \* what the entry point of this call gave back
  callsDone,      \* public calls completed
  allClean,       \* every completed call returned or threw an OrbitError
  kept,           \* the last Uint8Array a caller received, its bytes then and
                  \* where the core had them
  evalArg,        \* evaluate's parameter input and the environment it resolved
                  \* it in, until invoke takes the encoded source
  running,        \* the asynchronous task the event loop is running
  options,        \* createOrbit's parameter options
  env,            \* capabilities and resources of the hosting environment
  cpc,            \* position of createOrbit
  instance,       \* the WebAssembly.Instance instantiateOrbit resolved to
  loaded,         \* the sources instantiateOrbit read, fetched or instantiated
  created,        \* what the promise of createOrbit settled to
  rt,             \* a caller comparing evaluateAst(parse(s)) with evaluate(s)
  slot            \* a result slot on its own: the 12 bytes the core stores
                  \* and the words readSlice makes of them

coreVars == << mem, memGen, live, badFree, faultsLeft, growLeft >>
hostVars == << cachedView, cachedU8 >>
callVars == << pc, op, input, inputSlice, resultSlicePtr, status, resultSlice,
               payload, pending, outcome, trace, coreRet, evalArg >>
histVars == << callsDone, allClean, kept >>
bootVars == << options, env, cpc, instance, loaded, created >>
\* the state no step of a boundary call touches
outerVars == << bootVars, running, rt, slot >>
vars == << coreVars, hostVars, callVars, histVars, outerVars >>

(***************************************************************************)
(* The core (environment): allocator, memory growth, entry points.         *)
(***************************************************************************)
Overlaps(p, n, b) == p < b.ptr + b.size /\ b.ptr < p + n

\* Word-aligned addresses of a memory of n bytes; address 0 is the null pointer.
Aligned(n) == {p \in 1 .. n : p % 4 = 0}

\* Blocks of size bytes inside a memory of n bytes that overlap no allocated
\* buffer.
FreeBlocks(lv, size, n) ==
  {p \in Aligned(n) : p + size <= n /\ \A b \in lv : ~Overlaps(p, size, b)}

Lowest(S) == CHOOSE p \in S : \A q \in S : p <= q

\* A well-behaved orbit_alloc(size): the lowest free block (first fit), or
\* the null pointer when no block is free.
FirstFit(lv, size, n) ==
  IF FreeBlocks(lv, size, n) = {} THEN 0 ELSE Lowest(FreeBlocks(lv, size, n))

\* A block whose last byte lies past the end of a memory of n bytes.
PastEnd(size, n) == n - size + 1

\* orbit_alloc(size), as [ptr, fault]: first fit, or a misbehaviour.
AllocResults(lv, size, n) ==
  {[ptr |-> FirstFit(lv, size, n), fault |-> 0]}
  \cup (IF faultsLeft > 0
        THEN {[ptr |-> 0, fault |-> 1], [ptr |-> PastEnd(size, n), fault |-> 1]}
        ELSE {})

\* memory.grow: 1 when the call into the core replaces the memory region
GrowChoices == IF growLeft > 0 THEN {0, 1} ELSE {0}

Grown(m, g) == IF g = 1 THEN m \o [i \in 1 .. GrowBytes |-> 0] ELSE m

Ev(e, ptr, len, cap) == [ev |-> e, ptr |-> ptr, len |-> len, cap |-> cap]

\* The part of the state a sequence of calls into the core passes along.
CoreState == [mem |-> mem, live |-> live, bad |-> badFree, trace |-> trace]

IsLive(lv, ptr) == \E b \in lv : b.ptr = ptr

\* orbit_dealloc(ptr, len, cap) as the host calls it.
orbit_dealloc(st, ptr, len, cap) ==
  [mem   |-> st.mem,
   live  |-> {b \in st.live : b.ptr # ptr},
   bad   |-> IF IsLive(st.live, ptr) THEN st.bad ELSE st.bad + 1,
   trace |-> Append(st.trace, Ev("dealloc", ptr, len, cap))]

\* Result payloads an entry point produces.
CorePayloads == { << >>, TextOne, TextEleven, TextError, TextJunk }

\* Status codes an entry point returns.
Statuses == {STATUS_OK, 1}

(***************************************************************************)
(* Host helpers of OrbitCore.                                              *)
(***************************************************************************)
NullInput == [isNull |-> TRUE, bytes |-> << >>]

encodeString(value) ==
  IF Len(value) = 0 THEN NullInput ELSE [isNull |-> FALSE, bytes |-> Utf8Encode(value)]

bytesToString(bytes) == IF Len(bytes) = 0 THEN << >> ELSE Utf8Decode(bytes)

bytesToJson(bytes) == JsonParse(bytesToString(bytes))

\* getUint8Memory / getDataView: the cached view is rebuilt when it is null
\* or views another region than exports.memory.buffer.
\* getUint8Memory that keeps its view once it has one
getUint8Memory_Stale(cached, gen) == IF cached = NoView THEN gen ELSE cached

getUint8Memory(cached, gen) == IF cached = NoView \/ cached # gen THEN gen ELSE cached
getDataView(cached, gen) == IF cached = NoView \/ cached # gen THEN gen ELSE cached

\* byteLength of a view: a view of a replaced (detached) region is empty.
ViewLength(view, gen, m) == IF view = gen THEN Len(m) ELSE 0

\* The bytes a Uint8Array object holds now.
Contents(buf, m, gen) ==
  IF buf.owned THEN buf.bytes
  ELSE IF buf.gen # gen THEN << >>
  ELSE [i \in 1 .. Cardinality(Window(Len(m), buf.ptr, buf.len)) |-> m[buf.ptr + i]]

\* An unsigned 32-bit number as its two 16-bit halves (hi * 65536 + lo):
\* numbers from 2^31 on are beyond the integers of the model checker.
Uint32(lo, hi) == [lo |-> lo, hi |-> hi]
NumberOf(w) == w.lo + 65536 * w.hi

\* DataView.getUint32(a, false): the first byte is the most significant
GetUint32_BigEndian(m, a) == Uint32(m[a + 4] + 256 * m[a + 3], m[a + 2] + 256 * m[a + 1])

\* DataView.getUint32(a, true)
GetUint32(m, a) == Uint32(m[a + 1] + 256 * m[a + 2], m[a + 3] + 256 * m[a + 4])

\* The three words readSlice reads: FALSE in ok is the RangeError of a read
\* outside the view.
readSliceWords(m, viewLen, ptr) ==
  IF ptr + 4 > viewLen \/ ptr + 8 > viewLen \/ ptr + 12 > viewLen
  THEN [ok |-> FALSE, ptr |-> Uint32(0, 0), len |-> Uint32(0, 0), cap |-> Uint32(0, 0)]
  ELSE [ok |-> TRUE, ptr |-> GetUint32(m, ptr), len |-> GetUint32(m, ptr + 4),
        cap |-> GetUint32(m, ptr + 8)]

\* readSlice: the descriptor { ptr, len, cap } of the three words
readSlice(m, viewLen, ptr) ==
  LET w == readSliceWords(m, viewLen, ptr) IN
  IF w.ok
  THEN [ok |-> TRUE,
        slice |-> [ptr |-> NumberOf(w.ptr), len |-> NumberOf(w.len), cap |-> NumberOf(w.cap)]]
  ELSE [ok |-> FALSE, slice |-> ZeroSlice]

\* Uint8Array.prototype.slice(start, end): both ends are clamped to the view.
TypedArraySlice(m, viewLen, start, end) ==
  LET from  == Min(start, viewLen)
      to    == Min(end, viewLen)
      count == Max(to - from, 0)
  IN  [i \in 1 .. count |-> m[from + i]]

\* copySlice with subarray in place of slice: a view of the core's memory
copySlice_View(m, viewLen, gen, slice) ==
  IF slice.len = 0 THEN Owned(<< >>) ELSE ViewOf(gen, slice.ptr, slice.len)

\* copySlice that passes the length where slice expects the end offset
copySlice_EndIsLength(m, viewLen, gen, slice) ==
  IF slice.len = 0 THEN Owned(<< >>)
  ELSE Owned(TypedArraySlice(m, viewLen, slice.ptr, slice.len))

copySlice(m, viewLen, gen, slice) ==
  IF slice.len = 0 THEN Owned(<< >>)
  ELSE Owned(TypedArraySlice(m, viewLen, slice.ptr, slice.ptr + slice.len))

\* freeInput that forgets the release
freeInput_Skipped(st, slice) == st

\* freeInput without the test for the zero pointer
freeInput_Unguarded(st, slice) == orbit_dealloc(st, slice.ptr, slice.len, slice.cap)

freeInput(st, slice) ==
  IF slice.ptr # 0 THEN orbit_dealloc(st, slice.ptr, slice.len, slice.cap) ELSE st

\* freeBuffer that releases with the length in place of the capacity
freeBuffer_LengthAsCapacity(st, slice) ==
  IF slice.ptr # 0 THEN orbit_dealloc(st, slice.ptr, slice.len, slice.len) ELSE st

\* freeBuffer that forgets the release
freeBuffer_Skipped(st, slice) == st

freeBuffer(st, slice) ==
  IF slice.ptr # 0 THEN orbit_dealloc(st, slice.ptr, slice.len, slice.cap) ELSE st

(***************************************************************************)
(* evaluate's input resolution.  The environment of a call decides whether *)
(* node:fs was imported (hasFs, the module variable nodeFs) and the state  *)
(* of the one path of the file system: "file" (exists, readable), "empty"  *)
(* (exists, readable, no contents), "unreadable" and "directory" (exists,  *)
(* readFileSync throws) or "absent".  No path of the model starts with     *)
(* "file:".  probes counts the calls of existsSync and readFileSync.       *)
(***************************************************************************)
FilePath == << 102 >>
FileText == TextAccent
FsStates == {"file", "empty", "unreadable", "directory", "absent"}

RECURSIVE TrimStart(_)
TrimStart(s) == IF s # << >> /\ Head(s) = 32 THEN TrimStart(Tail(s)) ELSE s

RECURSIVE TrimEnd(_)
TrimEnd(s) ==
  IF s # << >> /\ s[Len(s)] = 32 THEN TrimEnd(SubSeq(s, 1, Len(s) - 1)) ELSE s

Trim(s) == TrimEnd(TrimStart(s))

\* tryLoadFileInput: found is FALSE for the null result.
tryLoadFileInput(hasFs, fs, filePath) ==
  IF ~hasFs THEN [found |-> FALSE, text |-> << >>, probes |-> 0]
  ELSE LET trimmed == Trim(filePath) IN
       IF Len(trimmed) = 0 THEN [found |-> FALSE, text |-> << >>, probes |-> 0]
       ELSE IF trimmed # FilePath \/ fs = "absent"
            THEN [found |-> FALSE, text |-> << >>, probes |-> 1]
       ELSE IF fs \in {"unreadable", "directory"}
            THEN [found |-> FALSE, text |-> << >>, probes |-> 2]
       ELSE [found |-> TRUE, text |-> IF fs = "empty" THEN << >> ELSE FileText, probes |-> 2]

StringInput(str) ==
  [form |-> "string", s |-> str, hasSource |-> FALSE, source |-> << >>,
   hasFilePath |-> FALSE, filePath |-> << >>]
OptionsInput(hasSource, source, hasFilePath, filePath) ==
  [form |-> "options", s |-> << >>, hasSource |-> hasSource, source |-> source,
   hasFilePath |-> hasFilePath, filePath |-> filePath]

Resolved(text, n) == [ok |-> TRUE, source |-> text, err |-> "", msg |-> "", probes |-> n]
ResolveError(e, m, n) == [ok |-> FALSE, source |-> << >>, err |-> e, msg |-> m, probes |-> n]

\* resolveEvaluateInput with || in place of ??: an empty file falls back to the
\* string
resolveEvaluateInput_OrFallback(hasFs, fs, in) ==
  IF in.form = "string"
  THEN LET contents == tryLoadFileInput(hasFs, fs, in.s) IN
       IF contents.found /\ Len(contents.text) # 0 THEN Resolved(contents.text, contents.probes)
       ELSE Resolved(in.s, contents.probes)
  ELSE IF in.hasSource THEN Resolved(in.source, 0)
  ELSE IF in.hasFilePath /\ Len(in.filePath) # 0
  THEN LET contents == tryLoadFileInput(hasFs, fs, in.filePath) IN
       IF contents.found THEN Resolved(contents.text, contents.probes)
       ELSE ResolveError("Error", "orbit.evaluate could not read from file path", contents.probes)
  ELSE ResolveError("TypeError", "orbit.evaluate requires a source string or options with filePath.", 0)

\* resolveEvaluateInput that tests input.source for truth: an empty source
\* gives way to filePath
resolveEvaluateInput_SourceTruthy(hasFs, fs, in) ==
  IF in.form = "string"
  THEN LET contents == tryLoadFileInput(hasFs, fs, in.s) IN
       IF contents.found THEN Resolved(contents.text, contents.probes)
       ELSE Resolved(in.s, contents.probes)
  ELSE IF in.hasSource /\ Len(in.source) # 0 THEN Resolved(in.source, 0)
  ELSE IF in.hasFilePath /\ Len(in.filePath) # 0
  THEN LET contents == tryLoadFileInput(hasFs, fs, in.filePath) IN
       IF contents.found THEN Resolved(contents.text, contents.probes)
       ELSE ResolveError("Error", "orbit.evaluate could not read from file path", contents.probes)
  ELSE ResolveError("TypeError", "orbit.evaluate requires a source string or options with filePath.", 0)

\* resolveEvaluateInput that takes an unreadable filePath as the source text
resolveEvaluateInput_LiteralFallback(hasFs, fs, in) ==
  IF in.form = "string"
  THEN LET contents == tryLoadFileInput(hasFs, fs, in.s) IN
       IF contents.found THEN Resolved(contents.text, contents.probes)
       ELSE Resolved(in.s, contents.probes)
  ELSE IF in.hasSource THEN Resolved(in.source, 0)
  ELSE IF in.hasFilePath /\ Len(in.filePath) # 0
  THEN LET contents == tryLoadFileInput(hasFs, fs, in.filePath) IN
       IF contents.found THEN Resolved(contents.text, contents.probes)
       ELSE Resolved(in.filePath, contents.probes)
  ELSE ResolveError("TypeError", "orbit.evaluate requires a source string or options with filePath.", 0)

\* resolveEvaluateInput that takes options without source and filePath as the
\* empty source
resolveEvaluateInput_EmptyDefault(hasFs, fs, in) ==
  IF in.form = "string"
  THEN LET contents == tryLoadFileInput(hasFs, fs, in.s) IN
       IF contents.found THEN Resolved(contents.text, contents.probes)
       ELSE Resolved(in.s, contents.probes)
  ELSE IF in.hasSource THEN Resolved(in.source, 0)
  ELSE IF in.hasFilePath /\ Len(in.filePath) # 0
  THEN LET contents == tryLoadFileInput(hasFs, fs, in.filePath) IN
       IF contents.found THEN Resolved(contents.text, contents.probes)
       ELSE ResolveError("Error", "orbit.evaluate could not read from file path", contents.probes)
  ELSE Resolved(<< >>, 0)

resolveEvaluateInput(hasFs, fs, in) ==
  IF in.form = "string"
  THEN LET contents == tryLoadFileInput(hasFs, fs, in.s) IN
       IF contents.found THEN Resolved(contents.text, contents.probes)
       ELSE Resolved(in.s, contents.probes)
  ELSE IF in.hasSource THEN Resolved(in.source, 0)
  ELSE IF in.hasFilePath /\ Len(in.filePath) # 0
  THEN LET contents == tryLoadFileInput(hasFs, fs, in.filePath) IN
       IF contents.found THEN Resolved(contents.text, contents.probes)
       ELSE IF ~hasFs
            THEN ResolveError("Error", "orbit.evaluate cannot read file paths in this environment",
                              contents.probes)
            ELSE ResolveError("Error", "orbit.evaluate could not read from file path",
                              contents.probes)
  ELSE ResolveError("TypeError", "orbit.evaluate requires a source string or options with filePath.", 0)

(***************************************************************************)
(* Arguments the callers pass.                                             *)
(***************************************************************************)
Sources == { << >>, TextOne }
Values == { JNum(1) }
\* " " and " f": a string of white space and the path with white space around
Blank == << 32 >>
PaddedPath == << 32 >> \o FilePath
EvalInputs ==
  { StringInput(<< >>), StringInput(TextOne), StringInput(FilePath),
    OptionsInput(TRUE, TextOne, TRUE, FilePath),
    OptionsInput(TRUE, << >>, TRUE, FilePath),
    OptionsInput(FALSE, << >>, TRUE, FilePath),
    OptionsInput(FALSE, << >>, TRUE, Blank),
    OptionsInput(FALSE, << >>, TRUE, << >>),
    OptionsInput(FALSE, << >>, FALSE, << >>) }

\* strings with white space in them
PaddedInputs == { StringInput(Blank), StringInput(PaddedPath) }

\* evaluate's argument, the environment of the call and the file system calls
\* its resolution made
NoArg == [has |-> FALSE, in |-> StringInput(<< >>), hasFs |-> FALSE, fs |-> "absent", probes |-> 0]
ArgOf(in, hasFs, fs, n) == [has |-> TRUE, in |-> in, hasFs |-> hasFs, fs |-> fs, probes |-> n]

(***************************************************************************)
(* createOrbit: the options, the hosting environment, the module exports.  *)
(***************************************************************************)
\* options.url: absent, the empty string, an absolute file: or http: URL, or
\* a string that only parses relative to DEFAULT_WASM_URL
UrlForms == {"absent", "empty", "file", "http", "relative"}

\* OrbitInitOptions; imports only travels to the instantiation
OptionSets ==
  [instantiate : BOOLEAN, module : BOOLEAN, binary : BOOLEAN, url : UrlForms]
NoOptions == [instantiate |-> FALSE, module |-> FALSE, binary |-> FALSE, url |-> "absent"]

\* The hosting environment: isNodeLike(), typeof fetch === "function", the
\* protocol of DEFAULT_WASM_URL (that of import.meta.url), whether readFile
\* succeeds and whether the response of fetch is ok.
Environments ==
  [nodeLike : BOOLEAN, hasFetch : BOOLEAN, defaultProtocol : {"file:", "http:"},
   fileOk : BOOLEAN, fetchOk : BOOLEAN]
NodeEnvironment ==
  [nodeLike |-> TRUE, hasFetch |-> TRUE, defaultProtocol |-> "file:",
   fileOk |-> TRUE, fetchOk |-> TRUE]

Url(href, protocol) == [href |-> href, protocol |-> protocol]
DEFAULT_WASM_URL(e) == Url("default", e.defaultProtocol)

\* normalizeUrl on a present url: new URL(input), and new URL(input,
\* DEFAULT_WASM_URL) when that throws; the empty string resolves to the base.
normalizeUrl(url, e) ==
  IF url = "file" THEN Url("file", "file:")
  ELSE IF url = "http" THEN Url("http", "http:")
  ELSE IF url = "relative" THEN Url("relative", e.defaultProtocol)
  ELSE DEFAULT_WASM_URL(e)

\* what instantiateOrbit read, fetched or instantiated
Took(what, href) == [what |-> what, href |-> href]

LoadOk(did) == [ok |-> TRUE, err |-> "", msg |-> << >>, did |-> did]
LoadError(e, m, did) == [ok |-> FALSE, err |-> e, msg |-> << m >>, did |-> did]

NoFileUrls == "File URLs are not supported in this environment. Provide wasm bytes via options.binary instead."
NoFetch == "Global fetch is unavailable. Provide wasm bytes via options.binary."

loadWasmBytes(urlOverride, e) ==
  LET targetUrl == IF urlOverride \in {"absent", "empty"} THEN DEFAULT_WASM_URL(e)
                   ELSE normalizeUrl(urlOverride, e)
      at == << Took("location", targetUrl.href) >>
  IN  IF targetUrl.protocol = "file:"
      THEN IF e.nodeLike
           THEN IF e.fileOk THEN LoadOk(Append(at, Took("readFile", targetUrl.href)))
                ELSE LoadError("Error", "ENOENT", Append(at, Took("readFile", targetUrl.href)))
           ELSE LoadError("Error", NoFileUrls, at)
      ELSE IF ~e.hasFetch THEN LoadError("Error", NoFetch, at)
      ELSE IF ~e.fetchOk
           THEN LoadError("Error", "Failed to fetch wasm", Append(at, Took("fetch", targetUrl.href)))
           ELSE LoadOk(Append(at, Took("fetch", targetUrl.href)))

\* instantiateOrbit that looks at options.binary before options.module
instantiateOrbit_BinaryFirst(opts, e) ==
  IF opts.instantiate THEN LoadOk(<< Took("instantiate", "") >>)
  ELSE IF opts.binary THEN LoadOk(<< Took("binary", "") >>)
  ELSE IF opts.module THEN LoadOk(<< Took("module", "") >>)
  ELSE loadWasmBytes(opts.url, e)

\* instantiateOrbit up to the instantiation itself: the source it settles on
instantiateOrbit(opts, e) ==
  IF opts.instantiate THEN LoadOk(<< Took("instantiate", "") >>)
  ELSE IF opts.module THEN LoadOk(<< Took("module", "") >>)
  ELSE IF opts.binary THEN LoadOk(<< Took("binary", "") >>)
  ELSE loadWasmBytes(opts.url, e)

\* validateExports: the names it requires, in its order
Required ==
  << "memory", "orbit_alloc", "orbit_dealloc", "orbit_version", "orbit_parse",
     "orbit_parse_with_recovery", "orbit_evaluate", "orbit_evaluate_ast",
     "orbit_value_to_json", "orbit_value_to_yaml", "orbit_value_to_msgpack" >>
ExportNames == {Required[i] : i \in DOMAIN Required}
EntryPoints == ExportNames \ {"memory"}

\* instance.exports: the kind of each export ("absent" when there is none)
CompleteExports == [k \in ExportNames |-> IF k = "memory" THEN "memory" ELSE "function"]
NoInstance == [k \in ExportNames |-> "absent"]

\* The modules an instantiation may give: complete, one or two exports
\* missing, a memory export or an entry point that is a global.
ModuleShapes ==
  {CompleteExports}
  \cup {[CompleteExports EXCEPT ![k] = "absent"] : k \in ExportNames}
  \cup {[CompleteExports EXCEPT !["orbit_parse"] = "absent", !["orbit_evaluate"] = "absent"],
        [CompleteExports EXCEPT !["memory"] = "global"],
        [CompleteExports EXCEPT !["orbit_evaluate"] = "global"]}

Valid == [ok |-> TRUE, err |-> "", msg |-> << >>]
Invalid(m) == [ok |-> FALSE, err |-> "Error", msg |-> m]

MissingExports(exports) == {i \in DOMAIN Required : exports[Required[i]] = "absent"}

\* validateExports without the test of the memory export
validateExports_NamesOnly(exports) ==
  IF MissingExports(exports) # {}
  THEN Invalid(<< "orbit wasm is missing required export: ",
                  Required[Lowest(MissingExports(exports))] >>)
  ELSE Valid

validateExports(exports) ==
  IF MissingExports(exports) # {}
  THEN Invalid(<< "orbit wasm is missing required export: ",
                  Required[Lowest(MissingExports(exports))] >>)
  ELSE IF exports["memory"] # "memory"
  THEN Invalid(<< "orbit wasm did not export a WebAssembly.Memory" >>)
  ELSE Valid

\* the promise createOrbit returned
Pending == [state |-> "pending", err |-> "", msg |-> << >>]
ResolvedCore == [state |-> "resolved", err |-> "", msg |-> << >>]
Rejected(e, m) == [state |-> "rejected", err |-> e, msg |-> m]

(***************************************************************************)
(* The core taken as a deterministic function of its input bytes, with     *)
(* orbit_evaluate(s) = orbit_evaluate_ast(orbit_parse(s)): "1", "f" and    *)
(* the text of the file are valid sources, the value of a tree is the tree. *)
(* "x" and "{" are not: the parser reports the token "x" with the span     *)
(* 0..1 and the missing end of "{" with the empty span 1..1.               *)
(***************************************************************************)
ValidSources == {TextOne, FilePath, FileText}
InvalidSources == {TextJunk, TextOpen}

CoreOk(bytes) == [status |-> STATUS_OK, bytes |-> bytes]
CoreFailed == [status |-> 1, bytes |-> TextError]
CoreFailedAtEnd == [status |-> 1, bytes |-> TextErrorAtEnd]

orbit_parse(bytes) ==
  LET text == Utf8Decode(bytes) IN
  IF text = TextOne THEN CoreOk(TextOne)
  ELSE IF text = FilePath THEN CoreOk(TextEleven)
  ELSE IF text = FileText THEN CoreOk(TextEmptyObject)
  ELSE IF text = TextOpen THEN CoreFailedAtEnd
  ELSE CoreFailed

orbit_evaluate_ast(bytes) ==
  IF bytes \in {TextOne, TextEleven, TextEmptyObject} THEN CoreOk(bytes) ELSE CoreFailed

orbit_evaluate(bytes) ==
  IF orbit_parse(bytes).status = STATUS_OK
  THEN orbit_evaluate_ast(orbit_parse(bytes).bytes)
  ELSE orbit_parse(bytes)

\* The asynchronous tasks that call the instance.
Tasks == {"a", "b"}

\* the comparison a caller makes; the outcomes of its three calls
NoRound ==
  [stage |-> "none", source |-> << >>, hasFs |-> FALSE, fs |-> "absent",
   ast |-> NoOutcome, viaAst |-> NoOutcome, direct |-> NoOutcome]

\* a result slot looked at on its own: where it lies, the bytes the core
\* stores in it, the words read from it
NoSlot ==
  [stage |-> "none", at |-> 0, bytes |-> << >>, words |-> readSliceWords(<< >>, 0, 0)]

\* contents of one word of the slot, least significant byte first
WordSamples ==
  {<< 0, 0, 0, 0 >>, << 1, 0, 0, 0 >>, << 0, 1, 0, 0 >>, << 0, 0, 1, 0 >>,
   << 0, 0, 0, 128 >>, << 120, 86, 52, 18 >>, << 255, 255, 255, 255 >>}

SlotAddresses == {0, 8, MemLen0 - SLICE_STRUCT_SIZE}

(***************************************************************************)
(* Initial state: a validated instance, no call made yet.                  *)
(***************************************************************************)
NoCoreRet == [returned |-> FALSE, status |-> 0, wrote |-> FALSE, slice |-> ZeroSlice, bytes |-> << >>]
NothingKept == [has |-> FALSE, buf |-> NoBuf, bytes |-> << >>, gen |-> 0, ptr |-> 0]

\* an instance that keeps the exception of a call beyond the call
CallReset_PendingKept ==
  /\ op' = ""
  /\ input' = NullInput
  /\ inputSlice' = ZeroSlice
  /\ resultSlicePtr' = 0
  /\ status' = STATUS_OK
  /\ resultSlice' = ZeroSlice
  /\ payload' = NoBuf
  /\ pending' = pending
  /\ outcome' = NoOutcome
  /\ trace' = << >>
  /\ coreRet' = NoCoreRet
  /\ evalArg' = NoArg

\* The locals of invoke and of the public method end with the call.
CallReset ==
  /\ op' = ""
  /\ input' = NullInput
  /\ inputSlice' = ZeroSlice
  /\ resultSlicePtr' = 0
  /\ status' = STATUS_OK
  /\ resultSlice' = ZeroSlice
  /\ payload' = NoBuf
  /\ pending' = NoOutcome
  /\ outcome' = NoOutcome
  /\ trace' = << >>
  /\ coreRet' = NoCoreRet
  /\ evalArg' = NoArg

\* f, g: the misbehaviours and the growths the core has in store
InitWith(f, g) ==
  /\ mem = [i \in 1 .. MemLen0 |-> 0]
  /\ memGen = 0
  /\ live = {}
  /\ badFree = 0
  /\ faultsLeft = f
  /\ growLeft = g
  /\ cachedView = NoView
  /\ cachedU8 = NoView
  /\ pc = "idle"
  /\ op = ""
  /\ input = NullInput
  /\ inputSlice = ZeroSlice
  /\ resultSlicePtr = 0
  /\ status = STATUS_OK
  /\ resultSlice = ZeroSlice
  /\ payload = NoBuf
  /\ pending = NoOutcome
  /\ outcome = NoOutcome
  /\ trace = << >>
  /\ coreRet = NoCoreRet
  /\ evalArg = NoArg
  /\ callsDone = 0
  /\ allClean = TRUE
  /\ kept = NothingKept

\* createOrbit() has resolved in a Node.js environment.
Constructed ==
  /\ options = NoOptions
  /\ env = NodeEnvironment
  /\ cpc = "settled"
  /\ instance = CompleteExports
  /\ loaded = instantiateOrbit(NoOptions, NodeEnvironment).did
  /\ created = ResolvedCore

\* One task makes the calls, and nobody compares results.
OneCaller ==
  /\ running = "a"
  /\ rt = NoRound
  /\ slot = NoSlot

\* A core that may misbehave and keeps its memory region.
Init == InitWith(MaxFaults, 0) /\ Constructed /\ OneCaller

\* A well-behaved core that may grow its memory.
InitGrow == InitWith(0, MaxGrow) /\ Constructed /\ OneCaller

\* A well-behaved core whose callers are asynchronous tasks.
InitTasks == InitWith(0, 0) /\ Constructed /\ OneCaller

\* A well-behaved core whose callers pass evaluate any of the strings.
InitEval == InitWith(0, 0) /\ Constructed /\ OneCaller

\* createOrbit(options) has been called in some environment.
InitCreate ==
  /\ InitWith(0, 0)
  /\ OneCaller
  /\ options \in OptionSets
  /\ env \in Environments
  /\ cpc = "start"
  /\ instance = NoInstance
  /\ loaded = << >>
  /\ created = Pending

\* A caller is about to compare evaluateAst(parse(source)) with
\* evaluate(source) on a core that is a deterministic function.
InitRound ==
  /\ InitWith(0, 0)
  /\ Constructed
  /\ running = "a"
  /\ rt \in {[NoRound EXCEPT !.stage = "start", !.source = s, !.hasFs = h, !.fs = f] :
              s \in ValidSources \cup InvalidSources, h \in BOOLEAN, f \in FsStates}
  /\ slot = NoSlot

\* An entry point is about to store some 12 bytes in a result slot that lies
\* somewhere inside the memory.
InitSlot ==
  /\ InitWith(0, 0)
  /\ Constructed
  /\ running = "a"
  /\ rt = NoRound
  /\ slot \in {[NoSlot EXCEPT !.stage = "start", !.at = a, !.bytes = p \o l \o c] :
               a \in SlotAddresses, p \in WordSamples, l \in WordSamples, c \in WordSamples}

(***************************************************************************)
(* The public methods: each encodes its input and enters invoke.           *)
(***************************************************************************)
Begin(o, in, arg) ==
  /\ pc = "idle"
  /\ callsDone < MaxCalls
  /\ pc' = "writeInput"
  /\ op' = o
  /\ input' = in
  /\ evalArg' = arg
  /\ UNCHANGED << coreVars, hostVars, histVars, outerVars, inputSlice, resultSlicePtr,
                  status, resultSlice, payload, pending, outcome, trace, coreRet >>

Version == Begin("version", NullInput, NoArg)

Parse == \E source \in Sources : Begin("parse", encodeString(source), NoArg)

ParseWithRecovery == \E source \in Sources : Begin("parseWithRecovery", encodeString(source), NoArg)

EvaluateFrom(inputs) ==
  \E in \in inputs, hasFs \in BOOLEAN, fs \in FsStates :
    LET r == resolveEvaluateInput(hasFs, fs, in) IN
    IF r.ok THEN Begin("evaluate", encodeString(r.source), ArgOf(in, hasFs, fs, r.probes))
    ELSE /\ pc = "idle"
         /\ callsDone < MaxCalls
         /\ pc' = "done"
         /\ op' = "evaluate"
         /\ evalArg' = ArgOf(in, hasFs, fs, r.probes)
         /\ outcome' = Thrown(r.err, r.msg)
         /\ UNCHANGED << coreVars, hostVars, histVars, outerVars, input, inputSlice,
                         resultSlicePtr, status, resultSlice, payload, pending, trace,
                         coreRet >>

Evaluate == EvaluateFrom(EvalInputs)

EvaluateAst == \E ast \in Values : Begin("evaluateAst", encodeString(JsonStringify(ast)), NoArg)

\* options.pretty reaches the core as an argument of the entry point only
ValueToJson ==
  \E value \in Values, pretty \in BOOLEAN :
    Begin("valueToJson", encodeString(JsonStringify(value)), NoArg)

ValueToYaml == \E value \in Values : Begin("valueToYaml", encodeString(JsonStringify(value)), NoArg)

ValueToMsgpack == \E value \in Values : Begin("valueToMsgpack", encodeString(JsonStringify(value)), NoArg)

(***************************************************************************)
(* OrbitCore.invoke, step by step.                                         *)
(***************************************************************************)
\* const inputSlice = this.writeInput(input)
WriteInput ==
  /\ pc = "writeInput"
  /\ IF input.isNull \/ Len(input.bytes) = 0
     THEN /\ inputSlice' = ZeroSlice
          /\ pc' = "allocSlice"
          /\ UNCHANGED << coreVars, cachedU8, trace, outcome >>
     ELSE \E g \in GrowChoices :
          \E a \in AllocResults(live, Len(input.bytes), Len(Grown(mem, g))) :
            LET n    == Len(input.bytes)
                m1   == Grown(mem, g)
                gen1 == memGen + g
                view == getUint8Memory(cachedU8, gen1)
            IN  /\ memGen' = gen1
                /\ badFree' = badFree
                /\ faultsLeft' = faultsLeft - a.fault
                /\ growLeft' = growLeft - g
                /\ live' = IF a.ptr = 0 THEN live
                           ELSE live \cup {[ptr |-> a.ptr, size |-> n, by |-> "host"]}
                /\ IF a.ptr = 0
                   THEN /\ outcome' = Thrown("Error", "orbit wasm could not allocate input buffer")
                        /\ pc' = "done"
                        /\ mem' = m1
                        /\ trace' = Append(trace, Ev("alloc", a.ptr, n, n))
                        /\ UNCHANGED << cachedU8, inputSlice >>
                   ELSE /\ cachedU8' = view
                        /\ IF a.ptr + n > ViewLength(view, gen1, m1)
                           THEN /\ outcome' = Thrown("RangeError", "offset is out of bounds")
                                /\ pc' = "done"
                                /\ mem' = m1
                                /\ trace' = Append(trace, Ev("alloc", a.ptr, n, n))
                                /\ UNCHANGED inputSlice
                           ELSE /\ mem' = Store(m1, a.ptr, input.bytes)
                                /\ inputSlice' = [ptr |-> a.ptr, len |-> n, cap |-> n]
                                /\ pc' = "allocSlice"
                                /\ trace' = trace \o << Ev("alloc", a.ptr, n, n), Ev("write", a.ptr, n, n) >>
                                /\ UNCHANGED outcome
  /\ evalArg' = NoArg
  /\ UNCHANGED << cachedView, op, input, resultSlicePtr, status, resultSlice,
                  payload, pending, coreRet, histVars, outerVars >>

\* const resultSlicePtr = this.exports.orbit_alloc(SLICE_STRUCT_SIZE); if it
\* is 0, free the input and throw
AllocResultSlice ==
  /\ pc = "allocSlice"
  /\ \E g \in GrowChoices :
     \E a \in AllocResults(live, SLICE_STRUCT_SIZE, Len(Grown(mem, g))) :
       LET st0 == [CoreState EXCEPT
                     !.mem = Grown(mem, g),
                     !.trace = Append(trace, Ev("alloc", a.ptr, SLICE_STRUCT_SIZE, SLICE_STRUCT_SIZE))]
       IN  /\ memGen' = memGen + g
           /\ faultsLeft' = faultsLeft - a.fault
           /\ growLeft' = growLeft - g
           /\ IF a.ptr = 0
              THEN LET st1 == freeInput(st0, inputSlice) IN
                   /\ mem' = st1.mem
                   /\ live' = st1.live
                   /\ badFree' = st1.bad
                   /\ trace' = st1.trace
                   /\ outcome' = Thrown("Error", "orbit wasm could not allocate result slice")
                   /\ pc' = "done"
                   /\ UNCHANGED resultSlicePtr
              ELSE /\ mem' = st0.mem
                   /\ live' = live \cup {[ptr |-> a.ptr, size |-> SLICE_STRUCT_SIZE, by |-> "host"]}
                   /\ badFree' = badFree
                   /\ trace' = st0.trace
                   /\ resultSlicePtr' = a.ptr
                   /\ pc' = "call"
                   /\ UNCHANGED outcome
  /\ UNCHANGED << hostVars, op, input, inputSlice, status, resultSlice, payload,
                  pending, coreRet, evalArg, histVars, outerVars >>

\* Where an entry point puts a result of n bytes, as [ptr, fault]: nowhere
\* for an empty result, else a block of its allocator; its misbehaviours are
\* the null pointer with a length and a block that reaches past the end.
ResultBlocks(lv, n, memLen) ==
  IF n = 0 THEN {[ptr |-> 0, fault |-> 0]}
  ELSE (IF FirstFit(lv, n, memLen) # 0
        THEN {[ptr |-> FirstFit(lv, n, memLen), fault |-> 0]} ELSE {})
       \cup (IF faultsLeft > 0
             THEN {[ptr |-> 0, fault |-> 1], [ptr |-> PastEnd(n, memLen), fault |-> 1]}
             ELSE {})

\* The capacity of the buffer an entry point hands over for n bytes: its
\* allocator rounds up to whole words, so the capacity can exceed the length.
CapacityOf(n) == 4 * ((n + 3) \div 4)

\* status = call(inputSlice.ptr, inputSlice.len, resultSlicePtr): the entry
\* point of the method in progress traps, or stores the result bytes and the
\* result descriptor and returns a status.
TrapEntry ==
  /\ pending' = Thrown("RuntimeError", "unreachable")
  /\ pc' = "finally"
  /\ trace' = Append(trace, Ev(op, inputSlice.ptr, inputSlice.len, resultSlicePtr))
  /\ UNCHANGED << coreVars, status, coreRet >>

\* The entry point returns.  It stores the descriptor when the slot lies
\* inside the memory; with a slot that reaches past the end it returns
\* without storing it.
ReturnEntry ==
  \E g \in GrowChoices, code \in Statuses, bytes \in CorePayloads :
  \E r \in ResultBlocks(live, Len(bytes), Len(Grown(mem, g))) :
    LET m1    == Grown(mem, g)
        n     == Len(bytes)
        slice == [ptr |-> r.ptr, len |-> n, cap |-> CapacityOf(n)]
        m2    == IF r.ptr # 0 THEN Store(m1, r.ptr, bytes) ELSE m1
        wrote == resultSlicePtr + SLICE_STRUCT_SIZE <= Len(m1)
        m3    == IF wrote THEN Store(m2, resultSlicePtr, SliceBytes(slice)) ELSE m2
    IN  /\ mem' = m3
        /\ memGen' = memGen + g
        /\ live' = IF r.ptr = 0 THEN live
                   ELSE live \cup {[ptr |-> r.ptr, size |-> n, by |-> "core"]}
        /\ badFree' = badFree
        /\ faultsLeft' = faultsLeft - r.fault
        /\ growLeft' = growLeft - g
        /\ status' = code
        /\ coreRet' = [returned |-> TRUE, status |-> code, wrote |-> wrote, slice |-> slice,
                       bytes |-> [i \in 1 .. Cardinality(Window(Len(m3), r.ptr, n)) |-> m3[r.ptr + i]]]
        /\ trace' = Append(trace, Ev(op, inputSlice.ptr, inputSlice.len, resultSlicePtr))
        /\ pending' = pending
        /\ pc' = "readSlice"

CallEntry ==
  /\ pc = "call"
  /\ (TrapEntry \/ ReturnEntry)
  /\ UNCHANGED << hostVars, op, input, inputSlice, resultSlicePtr, resultSlice, payload,
                  outcome, evalArg, histVars, outerVars >>

\* The rest of the try block: const resultSlice = this.readSlice(resultSlicePtr);
\* payload = this.copySlice(resultSlice); this.freeBuffer(resultSlice)
ReadCopyFree ==
  /\ pc = "readSlice"
  /\ LET dv == getDataView(cachedView, memGen)
         r  == readSlice(mem, ViewLength(dv, memGen, mem), resultSlicePtr)
         u8 == IF r.slice.len = 0 THEN cachedU8 ELSE getUint8Memory(cachedU8, memGen)
         st1 == [CoreState EXCEPT
                   !.trace = trace \o
                     << Ev("read", resultSlicePtr, SLICE_STRUCT_SIZE, SLICE_STRUCT_SIZE),
                        Ev("copy", r.slice.ptr, r.slice.len, r.slice.cap) >>]
         st2 == freeBuffer(st1, r.slice)
     IN  /\ cachedView' = dv
         /\ IF r.ok
            THEN /\ resultSlice' = r.slice
                 /\ cachedU8' = u8
                 /\ payload' = copySlice(mem, ViewLength(u8, memGen, mem), memGen, r.slice)
                 /\ mem' = st2.mem
                 /\ live' = st2.live
                 /\ badFree' = st2.bad
                 /\ trace' = st2.trace
                 /\ UNCHANGED pending
            ELSE /\ pending' = Thrown("RangeError", "Offset is outside the bounds of the DataView")
                 /\ UNCHANGED << resultSlice, cachedU8, payload, mem, live, badFree, trace >>
  /\ pc' = "finally"
  /\ UNCHANGED << memGen, faultsLeft, growLeft, op, input, inputSlice, resultSlicePtr, status,
                  outcome, coreRet, evalArg, histVars, outerVars >>

\* The onOk of each public method.
StringOps == {"version", "valueToJson", "valueToYaml"}
JsonOps == {"parse", "parseWithRecovery", "evaluate", "evaluateAst"}

onOk(o, buf, m, gen) ==
  IF o \in StringOps THEN Returned(StringValue(bytesToString(Contents(buf, m, gen))))
  ELSE IF o \in JsonOps
  THEN LET j == bytesToJson(Contents(buf, m, gen)) IN
       IF j.ok THEN Returned(JsonValue(j.v)) ELSE Thrown("SyntaxError", "JSON.parse")
  ELSE Returned(BytesValue(buf))

\* a failure path that throws a plain Error and drops the payload
onError_Generic(buf, m, gen) == Thrown("Error", "orbit call failed")

\* a failure path that hands on the span with its ends exchanged
onError_SpanFlipped(buf, m, gen) ==
  LET j == bytesToJson(Contents(buf, m, gen)) IN
  IF j.ok THEN OrbitError([j.v EXCEPT !.start = j.v.end, !.end = j.v.start])
  ELSE Thrown("SyntaxError", "JSON.parse")

\* throw new OrbitError(this.bytesToJson(payload))
onError(buf, m, gen) ==
  LET j == bytesToJson(Contents(buf, m, gen)) IN
  IF j.ok THEN OrbitError(j.v) ELSE Thrown("SyntaxError", "JSON.parse")

\* a finally block that releases the input and keeps the slot
Finally_SlotKept ==
  /\ pc = "finally"
  /\ LET st2 == freeInput(CoreState, inputSlice)
     IN    /\ mem' = st2.mem
           /\ live' = st2.live
           /\ badFree' = st2.bad
           /\ trace' = st2.trace
  /\ IF pending.kind = "throw"
     THEN /\ outcome' = pending
          /\ pc' = "done"
     ELSE /\ outcome' = outcome
          /\ pc' = "decode"
  /\ UNCHANGED << memGen, faultsLeft, growLeft, hostVars, op, input, inputSlice, resultSlicePtr, status,
                  resultSlice, payload, pending, coreRet, evalArg, histVars, outerVars >>

\* an invoke that decodes the payload inside the try block, before the
\* finally block releases the slot and the input
Finally_DecodeFirst ==
  /\ pc = "finally"
  /\ LET decoded == pending.kind # "throw"
         decoder == IF status = STATUS_OK THEN "onOk" ELSE "onError"
         st0 == [CoreState EXCEPT
                   !.trace = IF decoded THEN Append(trace, Ev(decoder, 0, 0, 0)) ELSE trace]
         st1 == orbit_dealloc(st0, resultSlicePtr, SLICE_STRUCT_SIZE, SLICE_STRUCT_SIZE)
         st2 == freeInput(st1, inputSlice)
     IN    /\ mem' = st2.mem
           /\ live' = st2.live
           /\ badFree' = st2.bad
           /\ trace' = st2.trace
           /\ outcome' = IF ~decoded THEN pending
                         ELSE IF status = STATUS_OK THEN onOk(op, payload, mem, memGen)
                         ELSE onError(payload, mem, memGen)
  /\ pc' = "done"
  /\ UNCHANGED << memGen, faultsLeft, growLeft, hostVars, op, input, inputSlice, resultSlicePtr, status,
                  resultSlice, payload, pending, coreRet, evalArg, histVars, outerVars >>

\* a finally block that releases the input before the slot
Finally_InputFirst ==
  /\ pc = "finally"
  /\ LET st1 == freeInput(CoreState, inputSlice)
         st2 == orbit_dealloc(st1, resultSlicePtr, SLICE_STRUCT_SIZE, SLICE_STRUCT_SIZE)
     IN    /\ mem' = st2.mem
           /\ live' = st2.live
           /\ badFree' = st2.bad
           /\ trace' = st2.trace
  /\ IF pending.kind = "throw"
     THEN /\ outcome' = pending
          /\ pc' = "done"
     ELSE /\ outcome' = outcome
          /\ pc' = "decode"
  /\ UNCHANGED << memGen, faultsLeft, growLeft, hostVars, op, input, inputSlice, resultSlicePtr, status,
                  resultSlice, payload, pending, coreRet, evalArg, histVars, outerVars >>

\* finally { orbit_dealloc(resultSlicePtr, 12, 12); this.freeInput(inputSlice) }
Finally ==
  /\ pc = "finally"
  /\ LET st1 == orbit_dealloc(CoreState, resultSlicePtr, SLICE_STRUCT_SIZE, SLICE_STRUCT_SIZE)
         st2 == freeInput(st1, inputSlice)
     IN    /\ mem' = st2.mem
           /\ live' = st2.live
           /\ badFree' = st2.bad
           /\ trace' = st2.trace
  /\ IF pending.kind = "throw"
     THEN /\ outcome' = pending
          /\ pc' = "done"
     ELSE /\ outcome' = outcome
          /\ pc' = "decode"
  /\ UNCHANGED << memGen, faultsLeft, growLeft, hostVars, op, input, inputSlice, resultSlicePtr, status,
                  resultSlice, payload, pending, coreRet, evalArg, histVars, outerVars >>

\* an invoke that starts over once when the entry point reported a failure
Finish_Retry ==
  /\ pc = "decode"
  /\ IF status = STATUS_OK
     THEN /\ outcome' = onOk(op, payload, mem, memGen)
          /\ trace' = Append(trace, Ev("onOk", 0, 0, 0))
          /\ pc' = "done"
     ELSE IF Cardinality({i \in DOMAIN trace : trace[i].ev = op}) < 2
     THEN /\ pc' = "allocSlice"
          /\ UNCHANGED << outcome, trace >>
     ELSE /\ outcome' = onError(payload, mem, memGen)
          /\ trace' = Append(trace, Ev("onError", 0, 0, 0))
          /\ pc' = "done"
  /\ UNCHANGED << coreVars, hostVars, op, input, inputSlice, resultSlicePtr, status,
                  resultSlice, payload, pending, coreRet, evalArg, histVars, outerVars >>

\* if (status === STATUS_OK) return onOk(payload); throw new OrbitError(...)
Finish ==
  /\ pc = "decode"
  /\ IF status = STATUS_OK
     THEN /\ outcome' = onOk(op, payload, mem, memGen)
          /\ trace' = Append(trace, Ev("onOk", 0, 0, 0))
     ELSE /\ outcome' = onError(payload, mem, memGen)
          /\ trace' = Append(trace, Ev("onError", 0, 0, 0))
  /\ pc' = "done"
  /\ UNCHANGED << coreVars, hostVars, op, input, inputSlice, resultSlicePtr, status,
                  resultSlice, payload, pending, coreRet, evalArg, histVars, outerVars >>

\* The caller receives the outcome; a Uint8Array it received is kept.
Complete ==
  /\ pc = "done"
  /\ pc' = "idle"
  /\ callsDone' = callsDone + 1
  /\ allClean' = (allClean /\ (outcome.kind = "return" \/ outcome.err = "OrbitError"))
  /\ kept' = IF outcome.kind = "return" /\ outcome.value.t = "bytes"
             THEN [has |-> TRUE, buf |-> outcome.value.buf,
                   bytes |-> Contents(outcome.value.buf, mem, memGen),
                   gen |-> memGen, ptr |-> resultSlice.ptr]
             ELSE kept
  /\ CallReset
  /\ UNCHANGED << coreVars, hostVars, outerVars >>

Next ==
  \/ Version
  \/ Parse
  \/ ParseWithRecovery
  \/ Evaluate
  \/ EvaluateAst
  \/ ValueToJson
  \/ ValueToYaml
  \/ ValueToMsgpack
  \/ WriteInput
  \/ AllocResultSlice
  \/ CallEntry
  \/ ReadCopyFree
  \/ Finally
  \/ Finish
  \/ Complete

Spec == Init /\ [][Next]_vars

SpecGrow == InitGrow /\ [][Next]_vars

(***************************************************************************)
(* Callers that are asynchronous tasks.  The public methods and invoke are *)
(* synchronous functions without an await: the event loop runs another     *)
(* task only when the running one is outside a call.                       *)
(***************************************************************************)
\* a boundary call with a suspension point in it
Switch_MidCall ==
  /\ running' \in Tasks \ {running}
  /\ UNCHANGED << coreVars, hostVars, callVars, histVars, bootVars, rt, slot >>

Switch ==
  /\ pc = "idle"
  /\ running' \in Tasks \ {running}
  /\ UNCHANGED << coreVars, hostVars, callVars, histVars, bootVars, rt, slot >>

NextTasks ==
  \/ Next
  \/ Switch

SpecTasks == InitTasks /\ [][NextTasks]_vars

(***************************************************************************)
(* Callers that also pass evaluate strings with white space in them.       *)
(***************************************************************************)
EvaluatePadded == EvaluateFrom(PaddedInputs)

NextEval ==
  \/ Next
  \/ EvaluatePadded

SpecEval == InitEval /\ [][NextEval]_vars

(***************************************************************************)
(* createOrbit(options).                                                   *)
(***************************************************************************)
\* const instance = await instantiateOrbit(options): the source is settled
\* on and instantiated; the instantiation gives a module of some shape or
\* fails.
InstantiateOrbit ==
  /\ cpc = "start"
  /\ LET r == instantiateOrbit(options, env) IN
     /\ loaded' = r.did
     /\ IF r.ok
        THEN \E linked \in BOOLEAN, shape \in ModuleShapes :
               IF linked
               THEN /\ instance' = shape
                    /\ cpc' = "instantiated"
                    /\ UNCHANGED created
               ELSE /\ created' = Rejected("LinkError", << "WebAssembly.instantiate" >>)
                    /\ cpc' = "settled"
                    /\ UNCHANGED instance
        ELSE /\ created' = Rejected(r.err, r.msg)
             /\ cpc' = "settled"
             /\ UNCHANGED instance
  /\ UNCHANGED << coreVars, hostVars, callVars, histVars, running, rt, slot, options, env >>

\* validateExports(exports); return new OrbitCore(exports)
CreateOrbit ==
  /\ cpc = "instantiated"
  /\ LET v == validateExports(instance) IN
     created' = IF v.ok THEN ResolvedCore ELSE Rejected(v.err, v.msg)
  /\ cpc' = "settled"
  /\ UNCHANGED << coreVars, hostVars, callVars, histVars, running, rt, slot, options, env,
                  instance, loaded >>

NextCreate ==
  \/ InstantiateOrbit
  \/ CreateOrbit

SpecCreate == InitCreate /\ [][NextCreate]_vars

(***************************************************************************)
(* A caller that compares evaluateAst(parse(source)) with evaluate(source) *)
(* on the deterministic core; each call runs invoke to its end.            *)
(***************************************************************************)
\* invoke on an entry point that gives back r
invokeOn(o, r) ==
  IF r.status = STATUS_OK THEN onOk(o, Owned(r.bytes), mem, memGen)
  ELSE onError(Owned(r.bytes), mem, memGen)

RoundFrame == UNCHANGED << coreVars, hostVars, callVars, histVars, bootVars, running, slot >>

RoundParse ==
  /\ rt.stage = "start"
  /\ rt.ast.kind = "none"
  /\ rt' = [rt EXCEPT !.ast = invokeOn("parse", orbit_parse(encodeString(rt.source).bytes))]
  /\ RoundFrame

RoundEvaluateAst ==
  /\ rt.stage = "start"
  /\ rt.ast.kind = "return"
  /\ rt.viaAst.kind = "none"
  /\ rt' = [rt EXCEPT !.viaAst =
               invokeOn("evaluateAst",
                        orbit_evaluate_ast(encodeString(JsonStringify(rt.ast.value.json)).bytes))]
  /\ RoundFrame

RoundEvaluate ==
  /\ rt.stage = "start"
  /\ rt.direct.kind = "none"
  /\ LET r == resolveEvaluateInput(rt.hasFs, rt.fs, StringInput(rt.source)) IN
     rt' = [rt EXCEPT !.direct =
              IF r.ok THEN invokeOn("evaluate", orbit_evaluate(encodeString(r.source).bytes))
              ELSE Thrown(r.err, r.msg)]
  /\ RoundFrame

NextRound ==
  \/ RoundParse
  \/ RoundEvaluateAst
  \/ RoundEvaluate

SpecRound == InitRound /\ [][NextRound]_vars

(***************************************************************************)
(* The result slot on its own: an entry point stores 12 bytes at the slot  *)
(* address, readSlice reads them through the DataView.                     *)
(***************************************************************************)
SlotFrame ==
  UNCHANGED << memGen, live, badFree, faultsLeft, growLeft, cachedU8, callVars, histVars,
               bootVars, running, rt >>

StoreSlot ==
  /\ slot.stage = "start"
  /\ mem' = Store(mem, slot.at, slot.bytes)
  /\ slot' = [slot EXCEPT !.stage = "stored"]
  /\ UNCHANGED cachedView
  /\ SlotFrame

ReadSlot ==
  /\ slot.stage = "stored"
  /\ LET dv == getDataView(cachedView, memGen) IN
     /\ cachedView' = dv
     /\ slot' = [slot EXCEPT !.stage = "read",
                             !.words = readSliceWords(mem, ViewLength(dv, memGen, mem), slot.at)]
  /\ UNCHANGED mem
  /\ SlotFrame

NextSlot ==
  \/ StoreSlot
  \/ ReadSlot

SpecSlot == InitSlot /\ [][NextSlot]_vars

(***************************************************************************)
(* The calls of one invoke, read off its trace.                            *)
(***************************************************************************)
IsAlloc(e) == e.ev = "alloc"
IsDealloc(e) == e.ev = "dealloc"
IsEntry(e) == e.ev \in StringOps \cup JsonOps \cup {"valueToMsgpack"}

Allocs == SelectSeq(trace, IsAlloc)
Deallocs == SelectSeq(trace, IsDealloc)
Entries == SelectSeq(trace, IsEntry)

\* number of orbit_dealloc calls of this invoke for the pointer p
Releases(p) == Cardinality({i \in DOMAIN trace : IsDealloc(trace[i]) /\ trace[i].ptr = p})

HasInput == ~input.isNull /\ Len(input.bytes) > 0

\* the entry point returned a status and stored its descriptor in the slot
EntryReturned == coreRet.returned /\ coreRet.wrote

\* what JSON.parse makes of the bytes the entry point gave back
CoreJson == JsonParse(bytesToString(coreRet.bytes))

(***************************************************************************)
(* C1 (stated as claimed): when invoke has returned or thrown, every       *)
(* buffer the host obtained from orbit_alloc during the call has been      *)
(* passed to orbit_dealloc exactly once, on every exit path.               *)
(***************************************************************************)
C1_ObtainedReleasedOnce ==
  pc = "done" =>
    \A i \in DOMAIN trace :
      (IsAlloc(trace[i]) /\ trace[i].ptr # 0) => Releases(trace[i].ptr) = 1

(***************************************************************************)
(* C2: after a sequence of public calls each of which returned a value or  *)
(* threw an OrbitError, no buffer is allocated in the core and no release  *)
(* hit a buffer that was not allocated (none was released twice).          *)
(***************************************************************************)
CleanOutcome == outcome.kind = "return" \/ outcome.err = "OrbitError"

C2_NothingLeftAllocated ==
  ((pc = "idle" /\ allClean) \/ (pc = "done" /\ allClean /\ CleanOutcome))
    => (live = {} /\ badFree = 0)

C2_Witness ==
  /\ pc = "done"
  /\ callsDone = 1
  /\ allClean
  /\ outcome.err = "OrbitError"
  /\ Len(Allocs) = 2
  /\ Len(Deallocs) = 3
  /\ live = {}

(***************************************************************************)
(* C3 (stated as claimed): for a call that completes successfully, the     *)
(* host made as many orbit_dealloc calls as orbit_alloc calls.             *)
(***************************************************************************)
Succeeded == pc = "done" /\ EntryReturned /\ status = STATUS_OK /\ outcome.kind = "return"

C3_AllocsEqualDeallocs == Succeeded => Len(Deallocs) = Len(Allocs)

(***************************************************************************)
(* C3 (amended): for a call that completes successfully, the host made one *)
(* orbit_dealloc call per orbit_alloc call, and one more when the pointer  *)
(* of the result descriptor is not 0 (the result buffer, which the core    *)
(* allocated).                                                             *)
(***************************************************************************)
C3_DeallocsCountResultBuffer ==
  Succeeded =>
    Len(Deallocs) = Len(Allocs) + (IF coreRet.slice.ptr # 0 THEN 1 ELSE 0)

C3_Witness ==
  /\ Succeeded
  /\ HasInput
  /\ coreRet.slice.ptr # 0
  /\ Len(Allocs) = 2
  /\ Len(Deallocs) = 3

(***************************************************************************)
(* C4 (stated as claimed): when the entry point or the read of the result  *)
(* descriptor raises, invoke has released the result buffer, the slot and  *)
(* the input buffer before the exception leaves it.                        *)
(***************************************************************************)
C4_AllThreeReleasedOnRaise ==
  (pc = "done" /\ pending.kind = "throw") =>
    /\ Releases(resultSlicePtr) = 1
    /\ (inputSlice.ptr # 0 => Releases(inputSlice.ptr) = 1)
    /\ ((coreRet.returned /\ coreRet.slice.ptr # 0) => Releases(coreRet.slice.ptr) = 1)

(***************************************************************************)
(* C5: the bytes handed to the caller are copied before the result buffer  *)
(* is released, and a Uint8Array a caller received keeps its bytes through *)
(* every later write to, reuse of and growth of the core's memory.         *)
(***************************************************************************)
CopyPrecedesRelease ==
  \A i \in DOMAIN trace :
    (IsDealloc(trace[i]) /\ coreRet.returned /\ coreRet.slice.ptr # 0
       /\ trace[i].ptr = coreRet.slice.ptr)
      => \E j \in 1 .. (i - 1) : trace[j].ev = "copy" /\ trace[j].ptr = trace[i].ptr

C5_ReturnedBytesAreACopy ==
  /\ CopyPrecedesRelease
  /\ kept.has => Contents(kept.buf, mem, memGen) = kept.bytes

\* the place the kept bytes came from holds other bytes now, or is gone
C5_Witness ==
  /\ kept.has
  /\ Len(kept.bytes) > 0
  /\ kept.ptr # 0
  /\ callsDone = 2
  /\ \/ memGen # kept.gen
     \/ \E i \in 1 .. Len(kept.bytes) : mem[kept.ptr + i] # kept.bytes[i]

(***************************************************************************)
(* C6: when the entry point returns status 0, invoke returns the decoding  *)
(* of exactly the bytes of the memory that the result descriptor described *)
(* when the entry point returned (no bytes when its length is 0), and the  *)
(* bridge itself throws nothing: the only error is the decoder's.  For a   *)
(* descriptor that reaches past the end of the memory these are the bytes  *)
(* up to the end.                                                          *)
(***************************************************************************)
C6_SuccessDecodesDescribedBytes ==
  (pc = "done" /\ EntryReturned /\ coreRet.status = STATUS_OK) =>
    /\ outcome = onOk(op, Owned(coreRet.bytes), mem, memGen)
    /\ (outcome.kind = "return" \/ outcome.err = "SyntaxError")
    /\ (coreRet.slice.len = 0 => Contents(payload, mem, memGen) = << >>)

C6_Witness ==
  /\ pc = "done"
  /\ EntryReturned
  /\ coreRet.status = STATUS_OK
  /\ op = "parse"
  /\ coreRet.bytes = TextEleven
  /\ outcome = Returned(JsonValue(JNum(11)))

(***************************************************************************)
(* C7: when the entry point returns a non-zero status with a well-formed   *)
(* error payload, the method throws an OrbitError whose detail has the     *)
(* kind, message, span.start and span.end of the decoded payload, and onOk *)
(* is never applied.                                                       *)
(***************************************************************************)
C7_StructuredErrorPreserved ==
  (pc = "done" /\ EntryReturned /\ coreRet.status # STATUS_OK
     /\ CoreJson.ok /\ CoreJson.v.shaped) =>
    /\ outcome.kind = "throw"
    /\ outcome.err = "OrbitError"
    /\ outcome.detail.kind = CoreJson.v.kind
    /\ outcome.detail.message = CoreJson.v.message
    /\ outcome.detail.start = CoreJson.v.start
    /\ outcome.detail.end = CoreJson.v.end
    /\ \A i \in DOMAIN trace : trace[i].ev # "onOk"

C7_Witness ==
  /\ pc = "done"
  /\ EntryReturned
  /\ coreRet.status # STATUS_OK
  /\ coreRet.bytes = TextError
  /\ outcome.err = "OrbitError"
  /\ outcome.detail = JError("E", "m", 0, 1)

(***************************************************************************)
(* C8 (stated as claimed): when the entry point returns a non-zero status  *)
(* and the payload does not decode into the structured-error shape, the    *)
(* call fails with an error that is not an OrbitError.                     *)
(***************************************************************************)
C8_MalformedPayloadNotOrbitError ==
  (pc = "done" /\ EntryReturned /\ coreRet.status # STATUS_OK
     /\ ~(CoreJson.ok /\ CoreJson.v.shaped)) =>
    (outcome.kind = "throw" /\ outcome.err # "OrbitError")

(***************************************************************************)
(* C9 (stated as claimed): every failure a public method raises is an      *)
(* OrbitError that carries a detail object.                                *)
(***************************************************************************)
C9_EveryFailureIsOrbitError ==
  (pc = "done" /\ outcome.kind = "throw") =>
    (outcome.err = "OrbitError" /\ outcome.detail.t = "object")

(***************************************************************************)
(* C10: when orbit_alloc returns the null pointer the call throws a plain  *)
(* Error without invoking the entry point; when the input buffer was       *)
(* refused nothing is released, when the result slot was refused the input *)
(* buffer already obtained is released exactly once and nothing else is.   *)
(***************************************************************************)
NullAlloc == \E i \in DOMAIN trace : IsAlloc(trace[i]) /\ trace[i].ptr = 0
InputRefused == HasInput /\ Len(Allocs) = 1 /\ Allocs[1].ptr = 0
SlotRefused == NullAlloc /\ ~InputRefused

C10_NullAllocAborts ==
  (pc = "done" /\ NullAlloc) =>
    /\ outcome.kind = "throw"
    /\ outcome.err = "Error"
    /\ Entries = << >>
    /\ (InputRefused => Deallocs = << >>)
    /\ (SlotRefused =>
          Deallocs = (IF HasInput
                      THEN << Ev("dealloc", Allocs[1].ptr, Len(input.bytes), Len(input.bytes)) >>
                      ELSE << >>))

C10_Witness ==
  /\ pc = "done"
  /\ SlotRefused
  /\ HasInput
  /\ Len(Deallocs) = 1
  /\ live = {}

(***************************************************************************)
(* C11: createOrbit resolves only if the instance exports the ten entry    *)
(* points by name and a memory export that is a WebAssembly.Memory; with   *)
(* any other instance it rejects with the validation Error, for every      *)
(* instantiation source; and creation invokes no export of the module.     *)
(***************************************************************************)
CompleteInstance ==
  /\ \A k \in EntryPoints : instance[k] # "absent"
  /\ instance["memory"] = "memory"

ValidationMessages ==
  {<< "orbit wasm is missing required export: ", k >> : k \in ExportNames}
  \cup {<< "orbit wasm did not export a WebAssembly.Memory" >>}

C11_ResolvesOnlyValidated ==
  cpc = "settled" =>
    /\ created.state = "resolved" => CompleteInstance
    /\ (instance # NoInstance /\ ~CompleteInstance) =>
         /\ created.state = "rejected"
         /\ created.err = "Error"
         /\ created.msg \in ValidationMessages
    /\ trace = << >>
    /\ live = {}

C11_Witness ==
  /\ cpc = "settled"
  /\ options.instantiate
  /\ instance["orbit_evaluate"] = "absent"
  /\ instance["orbit_parse"] = "absent"
  /\ created = Rejected("Error", << "orbit wasm is missing required export: ", "orbit_parse" >>)

(***************************************************************************)
(* C12: for every combination of instantiate, module, binary and url just  *)
(* one instantiation path is taken, the first present of instantiate hook, *)
(* precompiled module, raw bytes, location (url, or the default location); *)
(* nothing of a lower option is read, fetched or instantiated.             *)
(***************************************************************************)
Chosen ==
  IF options.instantiate THEN "instantiate"
  ELSE IF options.module THEN "module"
  ELSE IF options.binary THEN "binary"
  ELSE "location"

\* the location the url option names
TargetHref == IF options.url \in {"absent", "empty"} THEN "default" ELSE options.url

C12_OnePathByPrecedence ==
  cpc # "start" =>
    /\ loaded # << >>
    /\ loaded[1].what = Chosen
    /\ Len(loaded) <= 2
    /\ \A i \in DOMAIN loaded :
         /\ i > 1 => (Chosen = "location" /\ loaded[i].what \in {"readFile", "fetch"})
         /\ loaded[i].href = (IF Chosen = "location" THEN TargetHref ELSE "")

C12_Witness ==
  /\ cpc = "settled"
  /\ ~options.instantiate
  /\ options.module
  /\ options.binary
  /\ options.url = "http"
  /\ loaded = << Took("module", "") >>
  /\ created.state = "resolved"

(***************************************************************************)
(* C13 (stated as claimed): when the bytes come from a location, a local   *)
(* file reference is read directly where local-file access is available;   *)
(* in every other case a network fetch is performed; and the instantiation *)
(* fails for lack of capability only when neither local-file access nor    *)
(* network fetch is available.                                             *)
(***************************************************************************)
Did(what) == \E i \in DOMAIN loaded : loaded[i].what = what

LocalFileReference ==
  IF options.url = "file" THEN TRUE
  ELSE IF options.url = "http" THEN FALSE
  ELSE env.defaultProtocol = "file:"

CapabilityFailure ==
  created.state = "rejected" /\ created.msg \in {<< NoFileUrls >>, << NoFetch >>}

C13_FetchUnlessLocalFile ==
  (cpc # "start" /\ Chosen = "location") =>
    /\ (LocalFileReference /\ env.nodeLike) => (Did("readFile") /\ ~Did("fetch"))
    /\ (~(LocalFileReference /\ env.nodeLike) /\ env.hasFetch) => Did("fetch")
    /\ CapabilityFailure => (~env.nodeLike /\ ~env.hasFetch)

(***************************************************************************)
(* C14: for a plain string, evaluate's input resolution never throws; when *)
(* local-file access is available and the trimmed string names an existing *)
(* readable file the contents of the file are the source invoke receives,  *)
(* in every other case the string itself, unchanged.                       *)
(***************************************************************************)
NamesReadableFile(path) ==
  evalArg.hasFs /\ Trim(path) = FilePath /\ evalArg.fs \in {"file", "empty"}

ContentsOfFile == IF evalArg.fs = "empty" THEN << >> ELSE FileText

C14_PlainStringNeverThrows ==
  (evalArg.has /\ evalArg.in.form = "string") =>
    /\ pc = "writeInput"
    /\ op = "evaluate"
    /\ input = encodeString(IF NamesReadableFile(evalArg.in.s) THEN ContentsOfFile
                            ELSE evalArg.in.s)

C14_Witness ==
  /\ evalArg.has
  /\ evalArg.in = StringInput(PaddedPath)
  /\ evalArg.hasFs
  /\ evalArg.fs = "empty"
  /\ pc = "writeInput"
  /\ input = NullInput

(***************************************************************************)
(* C15: for options whose source is a string, that string (the empty one   *)
(* too) is the source invoke receives whatever filePath is and whether or  *)
(* not the file exists, and no file system call is made.                   *)
(***************************************************************************)
C15_ExplicitSourceWins ==
  (evalArg.has /\ evalArg.in.form = "options" /\ evalArg.in.hasSource) =>
    /\ pc = "writeInput"
    /\ op = "evaluate"
    /\ input = encodeString(evalArg.in.source)
    /\ evalArg.probes = 0

C15_Witness ==
  /\ evalArg.has
  /\ evalArg.in = OptionsInput(TRUE, << >>, TRUE, FilePath)
  /\ evalArg.hasFs
  /\ evalArg.fs = "file"
  /\ pc = "writeInput"
  /\ input = NullInput

(***************************************************************************)
(* C16: for options without a string source and with a filePath that       *)
(* cannot be read (no file, a read error, no local-file access), evaluate  *)
(* throws a host error: the path is never taken as source text, no buffer  *)
(* is allocated and orbit_evaluate is not invoked.                         *)
(***************************************************************************)
FilePathGiven ==
  evalArg.has /\ evalArg.in.form = "options" /\ ~evalArg.in.hasSource /\ evalArg.in.hasFilePath

C16_UnreadableFilePathIsFatal ==
  (FilePathGiven /\ ~NamesReadableFile(evalArg.in.filePath)) =>
    /\ pc = "done"
    /\ outcome.kind = "throw"
    /\ outcome.err = (IF Len(evalArg.in.filePath) = 0 THEN "TypeError" ELSE "Error")
    /\ trace = << >>

C16_Witness ==
  /\ evalArg.in = OptionsInput(FALSE, << >>, TRUE, FilePath)
  /\ evalArg.hasFs
  /\ evalArg.fs = "directory"
  /\ evalArg.probes = 2
  /\ pc = "done"
  /\ outcome = Thrown("Error", "orbit.evaluate could not read from file path")
  /\ callsDone = 1

(***************************************************************************)
(* C17: for options with neither a string source nor a filePath, evaluate  *)
(* throws a TypeError before any allocation and any entry-point call.      *)
(***************************************************************************)
C17_ShapelessOptionsTypeError ==
  (evalArg.has /\ evalArg.in.form = "options" /\ ~evalArg.in.hasSource
     /\ ~evalArg.in.hasFilePath) =>
    /\ pc = "done"
    /\ outcome = Thrown("TypeError", "orbit.evaluate requires a source string or options with filePath.")
    /\ trace = << >>
    /\ evalArg.probes = 0

C17_Witness ==
  /\ evalArg.in = OptionsInput(FALSE, << >>, FALSE, << >>)
  /\ evalArg.hasFs
  /\ evalArg.fs = "file"
  /\ pc = "done"
  /\ outcome.err = "TypeError"
  /\ callsDone = 1
  /\ live = {}

(***************************************************************************)
(* C18 (stated as claimed): for a valid source, evaluateAst(parse(source)) *)
(* equals evaluate(source) in every environment and file system state, on  *)
(* a core that is a deterministic function with                            *)
(* evaluate_ast(parse(s)) = evaluate(s).                                   *)
(***************************************************************************)
C18_RoundTrip ==
  (rt.viaAst.kind # "none" /\ rt.direct.kind # "none") => rt.viaAst = rt.direct

(***************************************************************************)
(* C19: a boundary call has no suspension point: from the step that begins *)
(* a call to the step that hands its outcome to the caller, the event loop *)
(* runs no other task, so the steps of two calls never interleave.         *)
(***************************************************************************)
C19_CallsDoNotInterleave == [][pc # "idle" => running' = running]_vars

C19_Witness ==
  /\ running = "b"
  /\ pc = "finally"
  /\ callsDone = 1
  /\ Len(Allocs) = 2

(***************************************************************************)
(* C20: every access of the bridge to the linear memory (the write of the  *)
(* input bytes, the read of the result descriptor, the copy of the         *)
(* payload) goes through a view of the region that is the memory's region  *)
(* at that moment, also when an orbit_alloc or an entry point replaced the *)
(* region just before.                                                     *)
(***************************************************************************)
C20_ViewsAreCurrent ==
  [][/\ (pc = "writeInput" /\ Len(trace') > Len(trace) /\ trace'[Len(trace) + 1].ptr # 0)
          => cachedU8' = memGen'
     /\ pc = "readSlice" => cachedView' = memGen'
     /\ (pc = "readSlice" /\ pending'.kind # "throw" /\ resultSlice'.len # 0)
          => cachedU8' = memGen']_vars

\* the input was written through a view made after the growth, by an instance
\* whose view of the region before was in use
C20_Witness ==
  /\ pc = "allocSlice"
  /\ inputSlice.ptr # 0
  /\ memGen = 1
  /\ cachedU8 = 1
  /\ cachedView = 0
  /\ kept.has
  /\ Len(kept.bytes) > 0
  /\ kept.gen = 0

(***************************************************************************)
(* C21 (stated as claimed): the bridge never reads the core's memory       *)
(* through a zero pointer: whenever the descriptor read from the slot has  *)
(* pointer 0, no bytes are copied from the memory for the payload and      *)
(* orbit_dealloc is not invoked for it, whatever its length and capacity.  *)
(***************************************************************************)
\* readSlice gave a descriptor whose pointer is 0, and copySlice has run
ReadZeroPointer ==
  \E i \in DOMAIN trace : trace[i].ev = "copy" /\ trace[i].ptr = 0

C21_ZeroPointerNeverRead ==
  ReadZeroPointer =>
    /\ Len(Contents(payload, mem, memGen)) = 0
    /\ Releases(0) = 0

(***************************************************************************)
(* C22 (stated as claimed): every call of a public operation allocates and *)
(* frees at least one buffer in the core's memory, even when its logical   *)
(* input is empty or absent.                                               *)
(***************************************************************************)
C22_EveryCallAllocatesAndFrees ==
  pc = "done" =>
    /\ \E i \in DOMAIN trace : IsAlloc(trace[i]) /\ trace[i].ptr # 0
    /\ Len(Deallocs) >= 1

(***************************************************************************)
(* C22 (amended): every call whose invoke obtained the result slot         *)
(* (orbit_alloc(12) gave a pointer other than 0) allocated and freed at    *)
(* least one buffer, the slot, even when its logical input is empty or     *)
(* absent; a call that ends before that allocates or frees nothing.        *)
(***************************************************************************)
C22_SlotAllocatedAndFreed ==
  (pc \in {"decode", "done"} /\ resultSlicePtr # 0) =>
    \E i, j \in DOMAIN trace :
      /\ i < j
      /\ trace[i] = Ev("alloc", resultSlicePtr, SLICE_STRUCT_SIZE, SLICE_STRUCT_SIZE)
      /\ trace[j] = Ev("dealloc", resultSlicePtr, SLICE_STRUCT_SIZE, SLICE_STRUCT_SIZE)

C22_Witness ==
  /\ pc = "done"
  /\ op = "version"
  /\ ~HasInput
  /\ outcome.kind = "return"
  /\ resultSlicePtr # 0
  /\ Len(Allocs) = 1
  /\ Releases(resultSlicePtr) = 1

(***************************************************************************)
(* C23: for an absent or empty input (version, or parse, parseWithRecovery *)
(* and evaluate with an effective source of length 0) no input buffer is   *)
(* allocated, the entry point is invoked with input pointer 0 and length   *)
(* 0, no orbit_dealloc is issued for the input, and the only allocation    *)
(* the host makes is the 12-byte result slot.                              *)
(***************************************************************************)
C23_EmptyInputNoBuffer ==
  (pc \notin {"idle", "writeInput"} /\ ~HasInput) =>
    /\ inputSlice = ZeroSlice
    /\ Len(Allocs) <= 1
    /\ \A i \in DOMAIN trace :
         /\ IsAlloc(trace[i]) => trace[i].len = SLICE_STRUCT_SIZE
         /\ IsEntry(trace[i]) => (trace[i].ptr = 0 /\ trace[i].len = 0)
         /\ IsDealloc(trace[i]) =>
              /\ trace[i].ptr # 0
              /\ \/ trace[i] = Ev("dealloc", resultSlicePtr, SLICE_STRUCT_SIZE, SLICE_STRUCT_SIZE)
                 \/ trace[i] = Ev("dealloc", resultSlice.ptr, resultSlice.len, resultSlice.cap)

\* evaluate("") has run to its end: one allocation, the entry point called
\* with (0, 0, slot), the slot released
C23_Witness ==
  /\ pc = "done"
  /\ op = "evaluate"
  /\ ~HasInput
  /\ Len(Entries) = 1
  /\ Entries[1].ptr = 0
  /\ Len(Allocs) = 1
  /\ Releases(resultSlicePtr) = 1
  /\ Releases(0) = 0

(***************************************************************************)
(* C24: each call of a public operation invokes at most one entry point of *)
(* the core, the one that belongs to the operation, and invokes it at most *)
(* once; after a failure of any kind (a refused allocation, a non-zero     *)
(* status, a trap, a payload that does not decode) nothing is tried again: *)
(* no orbit_alloc and no entry point follows a refused orbit_alloc or the  *)
(* call of the entry point.                                                *)
(***************************************************************************)
C24_OneEntryPointOnce ==
  /\ Len(Entries) <= 1
  /\ \A i \in DOMAIN trace : IsEntry(trace[i]) => trace[i].ev = op
  /\ \A i, j \in DOMAIN trace :
       (i < j /\ (IsEntry(trace[i]) \/ (IsAlloc(trace[i]) /\ trace[i].ptr = 0)))
         => (~IsAlloc(trace[j]) /\ ~IsEntry(trace[j]))

\* parse has thrown the OrbitError of a non-zero status after one call of
\* its entry point
C24_Witness ==
  /\ pc = "done"
  /\ op = "parse"
  /\ status # STATUS_OK
  /\ outcome.kind = "throw"
  /\ outcome.err = "OrbitError"
  /\ Len(Entries) = 1
  /\ Entries[1].ev = "parse"

C26_MessageIsKindColonMessage ==
  (pc = "done" /\ outcome.kind = "throw" /\ outcome.err = "OrbitError"
     /\ CoreJson.ok /\ CoreJson.v.shaped /\ outcome.detail = CoreJson.v)
    => outcome.msg = << CoreJson.v.kind, ": ", CoreJson.v.message >>

\* the core answered with the payload {kind: "E", message: "m", ...} and the
\* call threw "E: m"
C26_Witness ==
  /\ pc = "done"
  /\ status # STATUS_OK
  /\ outcome.err = "OrbitError"
  /\ outcome.detail.shaped
  /\ outcome.msg = << "E", ": ", "m" >>

(***************************************************************************)
(* C27: the result descriptor is decoded from the 12 bytes at the slot     *)
(* address as three little-endian unsigned 32-bit words, pointer at bytes  *)
(* 0-3, length at 4-7, capacity at 8-11: for every content of the slot     *)
(* each decoded field is the number b0 + 2^8 b1 + 2^16 b2 + 2^24 b3 of its *)
(* four bytes, a number in 0 .. 2^32 - 1.                                  *)
(***************************************************************************)
\* w is the number b[1] + 2^8 b[2] + 2^16 b[3] + 2^24 b[4]
IsLittleEndianOf(w, b) ==
  /\ w.lo \in 0 .. 65535
  /\ w.hi \in 0 .. 65535
  /\ b[1] = w.lo % 256
  /\ b[2] = w.lo \div 256
  /\ b[3] = w.hi % 256
  /\ b[4] = w.hi \div 256

C27_SlotDecodedLittleEndian ==
  slot.stage = "read" =>
    /\ slot.words.ok
    /\ IsLittleEndianOf(slot.words.ptr, SubSeq(slot.bytes, 1, 4))
    /\ IsLittleEndianOf(slot.words.len, SubSeq(slot.bytes, 5, 8))
    /\ IsLittleEndianOf(slot.words.cap, SubSeq(slot.bytes, 9, 12))

\* the slot held ff ff ff ff, 78 56 34 12, 00 00 00 80 and was read as
\* 2^32 - 1, 0x12345678 and 2^31
C27_Witness ==
  /\ slot.stage = "read"
  /\ slot.bytes = << 255, 255, 255, 255, 120, 86, 52, 18, 0, 0, 0, 128 >>
  /\ slot.words.ptr = Uint32(65535, 65535)
  /\ slot.words.len = Uint32(22136, 4660)
  /\ slot.words.cap = Uint32(0, 32768)

(***************************************************************************)
(* C28: every orbit_dealloc carries the triple under which its buffer was  *)
(* obtained: (ptr, n, n) for a buffer of n bytes the host got from         *)
(* orbit_alloc(n), the input and, with n = 12, the slot, and for the       *)
(* result buffer exactly the (pointer, length, capacity) the entry point   *)
(* stored in the slot.                                                     *)
(***************************************************************************)
C28_DeallocCarriesTriple ==
  \A i \in DOMAIN trace :
    IsDealloc(trace[i]) =>
      \/ \E j \in 1 .. i - 1 :
           /\ IsAlloc(trace[j])
           /\ trace[j].ptr = trace[i].ptr
           /\ trace[i].len = trace[j].len
           /\ trace[i].cap = trace[j].len
           /\ trace[j].len = IF trace[i].ptr = resultSlicePtr THEN SLICE_STRUCT_SIZE
                             ELSE Len(input.bytes)
      \/ /\ EntryReturned
         /\ coreRet.slice.ptr # 0
         /\ trace[i] = Ev("dealloc", coreRet.slice.ptr, coreRet.slice.len, coreRet.slice.cap)

\* a call with an input has released a result buffer whose capacity exceeds
\* its length, the slot and the input
C28_Witness ==
  /\ pc = "done"
  /\ HasInput
  /\ outcome.kind = "return"
  /\ Len(Deallocs) = 3
  /\ coreRet.slice.cap > coreRet.slice.len
  /\ Deallocs[1] = Ev("dealloc", coreRet.slice.ptr, coreRet.slice.len, coreRet.slice.cap)
  /\ Deallocs[2] = Ev("dealloc", resultSlicePtr, SLICE_STRUCT_SIZE, SLICE_STRUCT_SIZE)
  /\ Deallocs[3] = Ev("dealloc", inputSlice.ptr, Len(input.bytes), Len(input.bytes))

(***************************************************************************)
(* C29: no buffer is used after its release: the entry point is invoked    *)
(* only while the slot and the input buffer (if there is one) are          *)
(* allocated and not yet released, the slot is read before it is released, *)
(* the result buffer is copied before it is released, and the releases of  *)
(* a call come in the order result buffer, slot, input.                    *)
(***************************************************************************)
\* 1 for the release of the result buffer, 2 for the slot, 3 for the input
ReleaseRank(e) ==
  IF e.ptr = resultSlicePtr THEN 2
  ELSE IF HasInput /\ e.ptr = inputSlice.ptr THEN 3
  ELSE 1

C29_NoUseAfterRelease ==
  \A i \in DOMAIN trace :
    /\ IsEntry(trace[i]) =>
         /\ \A j \in 1 .. i - 1 : ~IsDealloc(trace[j])
         /\ \E j \in 1 .. i - 1 :
              trace[j] = Ev("alloc", resultSlicePtr, SLICE_STRUCT_SIZE, SLICE_STRUCT_SIZE)
         /\ trace[i].cap = resultSlicePtr /\ resultSlicePtr # 0
         /\ HasInput =>
              /\ trace[i].ptr = inputSlice.ptr /\ inputSlice.ptr # 0
              /\ \E j \in 1 .. i - 1 : trace[j] = Ev("write", inputSlice.ptr, inputSlice.len, inputSlice.cap)
    /\ trace[i].ev \in {"read", "copy"} =>
         \A j \in 1 .. i - 1 : ~IsDealloc(trace[j])
    /\ IsDealloc(trace[i]) =>
         \A j \in 1 .. i - 1 :
           IsDealloc(trace[j]) => ReleaseRank(trace[j]) < ReleaseRank(trace[i])

\* a successful call with an input: written, called, read, copied, and then
\* the three releases in their order
C29_Witness ==
  /\ pc = "done"
  /\ HasInput
  /\ outcome.kind = "return"
  /\ Len(Deallocs) = 3
  /\ ReleaseRank(Deallocs[1]) = 1
  /\ ReleaseRank(Deallocs[2]) = 2
  /\ ReleaseRank(Deallocs[3]) = 3
  /\ \E i \in DOMAIN trace : trace[i].ev = "copy" /\ trace[i].len > 0

(***************************************************************************)
(* C30: the decoder of the success payload and the decoder of the error    *)
(* payload run only after every release of the call: when either has run,  *)
(* the result buffer, the slot and the input buffer have been released,    *)
(* no release follows, and no buffer of the call is allocated, so an       *)
(* exception thrown while decoding leaves none allocated.                  *)
(***************************************************************************)
IsDecoder(e) == e.ev \in {"onOk", "onError"}

C30_DecodeAfterReleases ==
  \A i \in DOMAIN trace :
    IsDecoder(trace[i]) =>
      /\ \A j \in i + 1 .. Len(trace) : ~IsDealloc(trace[j])
      /\ Releases(resultSlicePtr) = 1
      /\ HasInput => Releases(inputSlice.ptr) = 1
      /\ coreRet.slice.ptr # 0 => Releases(coreRet.slice.ptr) = 1
      /\ \A b \in live :
           b.ptr \notin {resultSlicePtr, inputSlice.ptr, coreRet.slice.ptr}

\* JSON.parse has thrown on the success payload of a call with an input and
\* a result buffer, and nothing is allocated
C30_Witness ==
  /\ pc = "done"
  /\ HasInput
  /\ status = STATUS_OK
  /\ outcome.kind = "throw"
  /\ outcome.err = "SyntaxError"
  /\ coreRet.slice.ptr # 0
  /\ IsDecoder(trace[Len(trace)])
  /\ Len(Deallocs) = 3
  /\ live = {}

(***************************************************************************)
(* C31 (stated as claimed): for every result descriptor with length > 0    *)
(* the payload handed to the decoder has exactly length bytes; the bridge  *)
(* never delivers a shorter payload, also when pointer + length reaches    *)
(* past the end of the current memory region.                              *)
(***************************************************************************)
C31_PayloadHasDescribedLength ==
  \A i, k \in DOMAIN trace :
    (IsDecoder(trace[i]) /\ trace[k].ev = "copy" /\ trace[k].len > 0)
      => Len(Contents(payload, mem, memGen)) = trace[k].len

(***************************************************************************)
(* C32: a failed call does not poison the instance.  Between calls nothing *)
(* of a call is left on the host side (only the two cached views may       *)
(* differ from a new instance), and every call that enters invoke, also    *)
(* one that follows calls that threw, ends with the outcome the protocol   *)
(* gives on a new instance for the same input and the same responses of    *)
(* the core.                                                               *)
(***************************************************************************)
\* What invoke gives on a new instance, from the input and the responses of
\* the core in this call: the pointers orbit_alloc returned, whether the
\* entry point returned, its status and the bytes it described.
FreshOutcome ==
  LET n == Len(input.bytes)
      k == IF HasInput THEN 3 ELSE 1
  IN  IF HasInput /\ trace[1].ptr = 0
      THEN Thrown("Error", "orbit wasm could not allocate input buffer")
      ELSE IF HasInput /\ trace[1].ptr + n > Len(mem)
      THEN Thrown("RangeError", "offset is out of bounds")
      ELSE IF trace[k].ptr = 0
      THEN Thrown("Error", "orbit wasm could not allocate result slice")
      ELSE IF ~coreRet.returned
      THEN Thrown("RuntimeError", "unreachable")
      ELSE IF trace[k].ptr + SLICE_STRUCT_SIZE > Len(mem)
      THEN Thrown("RangeError", "Offset is outside the bounds of the DataView")
      ELSE LET bytes == IF coreRet.slice.len = 0 THEN << >> ELSE coreRet.bytes IN
           IF coreRet.status = STATUS_OK THEN onOk(op, Owned(bytes), mem, memGen)
           ELSE onError(Owned(bytes), mem, memGen)

C32_FailedCallLeavesNoMark ==
  /\ pc = "idle" =>
       << op, input, inputSlice, resultSlicePtr, status, resultSlice, payload, pending,
          outcome, trace, coreRet >>
         = << "", NullInput, ZeroSlice, 0, STATUS_OK, ZeroSlice, NoBuf, NoOutcome,
              NoOutcome, << >>, NoCoreRet >>
  /\ (pc = "done" /\ trace # << >>) => outcome = FreshOutcome

\* after a call that threw something other than an OrbitError, a call with
\* an input and a result has returned
C32_Witness ==
  /\ pc = "done"
  /\ callsDone = 1
  /\ ~allClean
  /\ HasInput
  /\ coreRet.slice.len > 0
  /\ outcome.kind = "return"
  /\ outcome = FreshOutcome

====
